---- MODULE Spec2Model ----
(***************************************************************************)
(* Model of checks/loopcheck.py: the regexp cache (Match, Search), the     *)
(* single-line delimiter scanner FindEndOfExpressionInLine, its multi-line *)
(* driver CloseExpression, the two loop-condition heuristics and           *)
(* CheckLoopCondition.                                                     *)
(*                                                                         *)
(* A Python str is a sequence of one-character strings.  Positions are the *)
(* 0-based positions of the source; At(s, i) is s[i].                      *)
(***************************************************************************)
EXTENDS Integers, Sequences, FiniteSets, TLC

VARIABLES
    elided,      \* clean_lines.elided: the lines of the file
    pc,          \* position of the running call: idle, enter, loop, resume, done
    caller,      \* who called CloseExpression: "direct" or "clc"
    startline,   \* CloseExpression: the linenum argument
    linenum,     \* CloseExpression: current line index
    pos,         \* CloseExpression: the pos argument
    line,        \* CloseExpression: current line
    stack,       \* CloseExpression: [none, items], the stack local
    result,      \* CloseExpression: returned (line, linenum, pos), or NoResult
    scanned,     \* calls of FindEndOfExpressionInLine made by this CloseExpression
    clc_linenum, \* CheckLoopCondition: the linenum argument
    matched,     \* CheckLoopCondition: matched.group(1), or "None"
    stmt,        \* CheckLoopCondition: texts handed to the heuristics
    errors,      \* CheckLoopCondition: calls of error() by this invocation
    cache,       \* _regexp_compile_cache: pattern -> entry (0: absent)
    compiles,    \* number of sre_compile.compile calls per pattern
    steps,       \* FindEndOfExpressionInLine called by a client: the characters processed
    called       \* Match and Search called by a client: the <<function, pattern>> pairs so far

vars == <<elided, pc, caller, startline, linenum, pos, line, stack, result, scanned,
          clc_linenum, matched, stmt, errors, cache, compiles, steps, called>>

(***************************************************************************)
(* Python str and list primitives.                                         *)
(***************************************************************************)
At(s, i) == s[i + 1]

Min(a, b) == IF a < b THEN a ELSE b
Max(a, b) == IF a > b THEN a ELSE b

\* s[lo:hi] for lo >= 0 (hi may be negative or beyond the end).
Slice(s, lo, hi) ==
    LET h == IF hi < 0 THEN Max(Len(s) + hi, 0) ELSE Min(hi, Len(s))
        l == Min(lo, Len(s))
    IN  IF h <= l THEN <<>> ELSE SubSeq(s, l + 1, h)

\* s.find(c) for a one-character c: lowest index, or -1.
Find(s, c) ==
    IF \E i \in 1..Len(s) : s[i] = c
    THEN (CHOOSE i \in 1..Len(s) : s[i] = c /\ \A j \in 1..(i - 1) : s[j] # c) - 1
    ELSE -1

\* sub in s, for a non-empty sub.
Contains(s, sub) ==
    \E i \in 0..(Len(s) - Len(sub)) : SubSeq(s, i + 1, i + Len(sub)) = sub

\* s.split(c) for a one-character c.
RECURSIVE Split(_, _)
Split(s, c) ==
    LET k == Find(s, c)
    IN  IF k = -1 THEN <<s>>
        ELSE <<Slice(s, 0, k)>> \o Split(Slice(s, k + 1, Len(s)), c)

\* A character of a line is a string: the character itself up to U+00FF,
\* and above that the text of its Python escape, '\u' and four hexadecimal
\* digits or '\U' and eight, in lower case ("\\u1680", "\\U0001d7ce").
\* The patterns are str patterns, so \s and \b follow Unicode.
HexDigits ==
    <<"0", "1", "2", "3", "4", "5", "6", "7", "8", "9", "a", "b", "c", "d", "e", "f">>

HexValue(d) == (CHOOSE i \in 1..16 : HexDigits[i] = d) - 1

RECURSIVE HexNumber(_)
HexNumber(h) ==
    IF Len(h) = 0 THEN 0
    ELSE 16 * HexNumber(SubSeq(h, 1, Len(h) - 1)) + HexValue(SubSeq(h, Len(h), Len(h)))

\* c has the shape of an escape
EscapeShape(c) ==
    /\ c \in STRING
    /\ \/ Len(c) = 6  /\ SubSeq(c, 1, 2) = "\\u"
       \/ Len(c) = 10 /\ SubSeq(c, 1, 4) = "\\U00"
    /\ \A k \in 3..Len(c) : \E i \in 1..16 : HexDigits[i] = SubSeq(c, k, k)

\* ord(c) of a character written as an escape
CodePoint(c) == HexNumber(SubSeq(c, 3, Len(c)))

\* c stands for a character above U+00FF: '\u' from U+0100 to U+FFFF, '\U'
\* from U+10000 to U+10FFFF
IsEscape(c) ==
    /\ EscapeShape(c)
    /\ IF Len(c) = 6 THEN CodePoint(c) \in 256..65535
                     ELSE CodePoint(c) \in 65536..1114111

\* \s: blank, \t, \n, \r, \f, then U+000B, U+001C to U+001F, U+0085, U+00A0,
\* then the spaces above U+00FF
Whitespace ==
    {" ", "\t", "\n", "\r", "\f",
     "", "", "", "", "", "", " ",
     "\\u1680", "\\u2000", "\\u2001", "\\u2002", "\\u2003", "\\u2004",
     "\\u2005", "\\u2006", "\\u2007", "\\u2008", "\\u2009", "\\u200a",
     "\\u2028", "\\u2029", "\\u202f", "\\u205f", "\\u3000"}

\* \w up to U+00FF: the letters and digits of ASCII, '_', and the letters
\* and digits among U+00AA to U+00FF
LatinWordChars ==
    {"0", "1", "2", "3", "4", "5", "6", "7", "8", "9", "A", "B", "C", "D",
     "E", "F", "G", "H", "I", "J", "K", "L", "M", "N", "O", "P", "Q", "R",
     "S", "T", "U", "V", "W", "X", "Y", "Z", "_", "a", "b", "c", "d", "e",
     "f", "g", "h", "i", "j", "k", "l", "m", "n", "o", "p", "q", "r", "s",
     "t", "u", "v", "w", "x", "y", "z",
     "ª", "²", "³", "µ", "¹", "º", "¼", "½", "¾", "À", "Á", "Â", "Ã", "Ä",
     "Å", "Æ", "Ç", "È", "É", "Ê", "Ë", "Ì", "Í", "Î", "Ï", "Ð", "Ñ", "Ò",
     "Ó", "Ô", "Õ", "Ö", "Ø", "Ù", "Ú", "Û", "Ü", "Ý", "Þ", "ß", "à", "á",
     "â", "ã", "ä", "å", "æ", "ç", "è", "é", "ê", "ë", "ì", "í", "î", "ï",
     "ð", "ñ", "ò", "ó", "ô", "õ", "ö", "ø", "ù", "ú", "û", "ü", "ý", "þ",
     "ÿ"}

\* \w above U+00FF: the code points of the letters and digits (Unicode 14.0.0,
\* the database of the interpreter), as ranges <<first, last>>
HighWordRanges ==
    <<<<256, 705>>, <<710, 721>>, <<736, 740>>, <<748, 748>>, <<750, 750>>,
      <<880, 884>>, <<886, 887>>, <<890, 893>>, <<895, 895>>, <<902, 902>>,
      <<904, 906>>, <<908, 908>>, <<910, 929>>, <<931, 1013>>, <<1015, 1153>>,
      <<1162, 1327>>, <<1329, 1366>>, <<1369, 1369>>, <<1376, 1416>>, <<1488, 1514>>,
      <<1519, 1522>>, <<1568, 1610>>, <<1632, 1641>>, <<1646, 1647>>, <<1649, 1747>>,
      <<1749, 1749>>, <<1765, 1766>>, <<1774, 1788>>, <<1791, 1791>>, <<1808, 1808>>,
      <<1810, 1839>>, <<1869, 1957>>, <<1969, 1969>>, <<1984, 2026>>, <<2036, 2037>>,
      <<2042, 2042>>, <<2048, 2069>>, <<2074, 2074>>, <<2084, 2084>>, <<2088, 2088>>,
      <<2112, 2136>>, <<2144, 2154>>, <<2160, 2183>>, <<2185, 2190>>, <<2208, 2249>>,
      <<2308, 2361>>, <<2365, 2365>>, <<2384, 2384>>, <<2392, 2401>>, <<2406, 2415>>,
      <<2417, 2432>>, <<2437, 2444>>, <<2447, 2448>>, <<2451, 2472>>, <<2474, 2480>>,
      <<2482, 2482>>, <<2486, 2489>>, <<2493, 2493>>, <<2510, 2510>>, <<2524, 2525>>,
      <<2527, 2529>>, <<2534, 2545>>, <<2548, 2553>>, <<2556, 2556>>, <<2565, 2570>>,
      <<2575, 2576>>, <<2579, 2600>>, <<2602, 2608>>, <<2610, 2611>>, <<2613, 2614>>,
      <<2616, 2617>>, <<2649, 2652>>, <<2654, 2654>>, <<2662, 2671>>, <<2674, 2676>>,
      <<2693, 2701>>, <<2703, 2705>>, <<2707, 2728>>, <<2730, 2736>>, <<2738, 2739>>,
      <<2741, 2745>>, <<2749, 2749>>, <<2768, 2768>>, <<2784, 2785>>, <<2790, 2799>>,
      <<2809, 2809>>, <<2821, 2828>>, <<2831, 2832>>, <<2835, 2856>>, <<2858, 2864>>,
      <<2866, 2867>>, <<2869, 2873>>, <<2877, 2877>>, <<2908, 2909>>, <<2911, 2913>>,
      <<2918, 2927>>, <<2929, 2935>>, <<2947, 2947>>, <<2949, 2954>>, <<2958, 2960>>,
      <<2962, 2965>>, <<2969, 2970>>, <<2972, 2972>>, <<2974, 2975>>, <<2979, 2980>>,
      <<2984, 2986>>, <<2990, 3001>>, <<3024, 3024>>, <<3046, 3058>>, <<3077, 3084>>,
      <<3086, 3088>>, <<3090, 3112>>, <<3114, 3129>>, <<3133, 3133>>, <<3160, 3162>>,
      <<3165, 3165>>, <<3168, 3169>>, <<3174, 3183>>, <<3192, 3198>>, <<3200, 3200>>,
      <<3205, 3212>>, <<3214, 3216>>, <<3218, 3240>>, <<3242, 3251>>, <<3253, 3257>>,
      <<3261, 3261>>, <<3293, 3294>>, <<3296, 3297>>, <<3302, 3311>>, <<3313, 3314>>,
      <<3332, 3340>>, <<3342, 3344>>, <<3346, 3386>>, <<3389, 3389>>, <<3406, 3406>>,
      <<3412, 3414>>, <<3416, 3425>>, <<3430, 3448>>, <<3450, 3455>>, <<3461, 3478>>,
      <<3482, 3505>>, <<3507, 3515>>, <<3517, 3517>>, <<3520, 3526>>, <<3558, 3567>>,
      <<3585, 3632>>, <<3634, 3635>>, <<3648, 3654>>, <<3664, 3673>>, <<3713, 3714>>,
      <<3716, 3716>>, <<3718, 3722>>, <<3724, 3747>>, <<3749, 3749>>, <<3751, 3760>>,
      <<3762, 3763>>, <<3773, 3773>>, <<3776, 3780>>, <<3782, 3782>>, <<3792, 3801>>,
      <<3804, 3807>>, <<3840, 3840>>, <<3872, 3891>>, <<3904, 3911>>, <<3913, 3948>>,
      <<3976, 3980>>, <<4096, 4138>>, <<4159, 4169>>, <<4176, 4181>>, <<4186, 4189>>,
      <<4193, 4193>>, <<4197, 4198>>, <<4206, 4208>>, <<4213, 4225>>, <<4238, 4238>>,
      <<4240, 4249>>, <<4256, 4293>>, <<4295, 4295>>, <<4301, 4301>>, <<4304, 4346>>,
      <<4348, 4680>>, <<4682, 4685>>, <<4688, 4694>>, <<4696, 4696>>, <<4698, 4701>>,
      <<4704, 4744>>, <<4746, 4749>>, <<4752, 4784>>, <<4786, 4789>>, <<4792, 4798>>,
      <<4800, 4800>>, <<4802, 4805>>, <<4808, 4822>>, <<4824, 4880>>, <<4882, 4885>>,
      <<4888, 4954>>, <<4969, 4988>>, <<4992, 5007>>, <<5024, 5109>>, <<5112, 5117>>,
      <<5121, 5740>>, <<5743, 5759>>, <<5761, 5786>>, <<5792, 5866>>, <<5870, 5880>>,
      <<5888, 5905>>, <<5919, 5937>>, <<5952, 5969>>, <<5984, 5996>>, <<5998, 6000>>,
      <<6016, 6067>>, <<6103, 6103>>, <<6108, 6108>>, <<6112, 6121>>, <<6128, 6137>>,
      <<6160, 6169>>, <<6176, 6264>>, <<6272, 6276>>, <<6279, 6312>>, <<6314, 6314>>,
      <<6320, 6389>>, <<6400, 6430>>, <<6470, 6509>>, <<6512, 6516>>, <<6528, 6571>>,
      <<6576, 6601>>, <<6608, 6618>>, <<6656, 6678>>, <<6688, 6740>>, <<6784, 6793>>,
      <<6800, 6809>>, <<6823, 6823>>, <<6917, 6963>>, <<6981, 6988>>, <<6992, 7001>>,
      <<7043, 7072>>, <<7086, 7141>>, <<7168, 7203>>, <<7232, 7241>>, <<7245, 7293>>,
      <<7296, 7304>>, <<7312, 7354>>, <<7357, 7359>>, <<7401, 7404>>, <<7406, 7411>>,
      <<7413, 7414>>, <<7418, 7418>>, <<7424, 7615>>, <<7680, 7957>>, <<7960, 7965>>,
      <<7968, 8005>>, <<8008, 8013>>, <<8016, 8023>>, <<8025, 8025>>, <<8027, 8027>>,
      <<8029, 8029>>, <<8031, 8061>>, <<8064, 8116>>, <<8118, 8124>>, <<8126, 8126>>,
      <<8130, 8132>>, <<8134, 8140>>, <<8144, 8147>>, <<8150, 8155>>, <<8160, 8172>>,
      <<8178, 8180>>, <<8182, 8188>>, <<8304, 8305>>, <<8308, 8313>>, <<8319, 8329>>,
      <<8336, 8348>>, <<8450, 8450>>, <<8455, 8455>>, <<8458, 8467>>, <<8469, 8469>>,
      <<8473, 8477>>, <<8484, 8484>>, <<8486, 8486>>, <<8488, 8488>>, <<8490, 8493>>,
      <<8495, 8505>>, <<8508, 8511>>, <<8517, 8521>>, <<8526, 8526>>, <<8528, 8585>>,
      <<9312, 9371>>, <<9450, 9471>>, <<10102, 10131>>, <<11264, 11492>>, <<11499, 11502>>,
      <<11506, 11507>>, <<11517, 11517>>, <<11520, 11557>>, <<11559, 11559>>, <<11565, 11565>>,
      <<11568, 11623>>, <<11631, 11631>>, <<11648, 11670>>, <<11680, 11686>>, <<11688, 11694>>,
      <<11696, 11702>>, <<11704, 11710>>, <<11712, 11718>>, <<11720, 11726>>, <<11728, 11734>>,
      <<11736, 11742>>, <<11823, 11823>>, <<12293, 12295>>, <<12321, 12329>>, <<12337, 12341>>,
      <<12344, 12348>>, <<12353, 12438>>, <<12445, 12447>>, <<12449, 12538>>, <<12540, 12543>>,
      <<12549, 12591>>, <<12593, 12686>>, <<12690, 12693>>, <<12704, 12735>>, <<12784, 12799>>,
      <<12832, 12841>>, <<12872, 12879>>, <<12881, 12895>>, <<12928, 12937>>, <<12977, 12991>>,
      <<13312, 19903>>, <<19968, 42124>>, <<42192, 42237>>, <<42240, 42508>>, <<42512, 42539>>,
      <<42560, 42606>>, <<42623, 42653>>, <<42656, 42735>>, <<42775, 42783>>, <<42786, 42888>>,
      <<42891, 42954>>, <<42960, 42961>>, <<42963, 42963>>, <<42965, 42969>>, <<42994, 43009>>,
      <<43011, 43013>>, <<43015, 43018>>, <<43020, 43042>>, <<43056, 43061>>, <<43072, 43123>>,
      <<43138, 43187>>, <<43216, 43225>>, <<43250, 43255>>, <<43259, 43259>>, <<43261, 43262>>,
      <<43264, 43301>>, <<43312, 43334>>, <<43360, 43388>>, <<43396, 43442>>, <<43471, 43481>>,
      <<43488, 43492>>, <<43494, 43518>>, <<43520, 43560>>, <<43584, 43586>>, <<43588, 43595>>,
      <<43600, 43609>>, <<43616, 43638>>, <<43642, 43642>>, <<43646, 43695>>, <<43697, 43697>>,
      <<43701, 43702>>, <<43705, 43709>>, <<43712, 43712>>, <<43714, 43714>>, <<43739, 43741>>,
      <<43744, 43754>>, <<43762, 43764>>, <<43777, 43782>>, <<43785, 43790>>, <<43793, 43798>>,
      <<43808, 43814>>, <<43816, 43822>>, <<43824, 43866>>, <<43868, 43881>>, <<43888, 44002>>,
      <<44016, 44025>>, <<44032, 55203>>, <<55216, 55238>>, <<55243, 55291>>, <<63744, 64109>>,
      <<64112, 64217>>, <<64256, 64262>>, <<64275, 64279>>, <<64285, 64285>>, <<64287, 64296>>,
      <<64298, 64310>>, <<64312, 64316>>, <<64318, 64318>>, <<64320, 64321>>, <<64323, 64324>>,
      <<64326, 64433>>, <<64467, 64829>>, <<64848, 64911>>, <<64914, 64967>>, <<65008, 65019>>,
      <<65136, 65140>>, <<65142, 65276>>, <<65296, 65305>>, <<65313, 65338>>, <<65345, 65370>>,
      <<65382, 65470>>, <<65474, 65479>>, <<65482, 65487>>, <<65490, 65495>>, <<65498, 65500>>,
      <<65536, 65547>>, <<65549, 65574>>, <<65576, 65594>>, <<65596, 65597>>, <<65599, 65613>>,
      <<65616, 65629>>, <<65664, 65786>>, <<65799, 65843>>, <<65856, 65912>>, <<65930, 65931>>,
      <<66176, 66204>>, <<66208, 66256>>, <<66273, 66299>>, <<66304, 66339>>, <<66349, 66378>>,
      <<66384, 66421>>, <<66432, 66461>>, <<66464, 66499>>, <<66504, 66511>>, <<66513, 66517>>,
      <<66560, 66717>>, <<66720, 66729>>, <<66736, 66771>>, <<66776, 66811>>, <<66816, 66855>>,
      <<66864, 66915>>, <<66928, 66938>>, <<66940, 66954>>, <<66956, 66962>>, <<66964, 66965>>,
      <<66967, 66977>>, <<66979, 66993>>, <<66995, 67001>>, <<67003, 67004>>, <<67072, 67382>>,
      <<67392, 67413>>, <<67424, 67431>>, <<67456, 67461>>, <<67463, 67504>>, <<67506, 67514>>,
      <<67584, 67589>>, <<67592, 67592>>, <<67594, 67637>>, <<67639, 67640>>, <<67644, 67644>>,
      <<67647, 67669>>, <<67672, 67702>>, <<67705, 67742>>, <<67751, 67759>>, <<67808, 67826>>,
      <<67828, 67829>>, <<67835, 67867>>, <<67872, 67897>>, <<67968, 68023>>, <<68028, 68047>>,
      <<68050, 68096>>, <<68112, 68115>>, <<68117, 68119>>, <<68121, 68149>>, <<68160, 68168>>,
      <<68192, 68222>>, <<68224, 68255>>, <<68288, 68295>>, <<68297, 68324>>, <<68331, 68335>>,
      <<68352, 68405>>, <<68416, 68437>>, <<68440, 68466>>, <<68472, 68497>>, <<68521, 68527>>,
      <<68608, 68680>>, <<68736, 68786>>, <<68800, 68850>>, <<68858, 68899>>, <<68912, 68921>>,
      <<69216, 69246>>, <<69248, 69289>>, <<69296, 69297>>, <<69376, 69415>>, <<69424, 69445>>,
      <<69457, 69460>>, <<69488, 69505>>, <<69552, 69579>>, <<69600, 69622>>, <<69635, 69687>>,
      <<69714, 69743>>, <<69745, 69746>>, <<69749, 69749>>, <<69763, 69807>>, <<69840, 69864>>,
      <<69872, 69881>>, <<69891, 69926>>, <<69942, 69951>>, <<69956, 69956>>, <<69959, 69959>>,
      <<69968, 70002>>, <<70006, 70006>>, <<70019, 70066>>, <<70081, 70084>>, <<70096, 70106>>,
      <<70108, 70108>>, <<70113, 70132>>, <<70144, 70161>>, <<70163, 70187>>, <<70272, 70278>>,
      <<70280, 70280>>, <<70282, 70285>>, <<70287, 70301>>, <<70303, 70312>>, <<70320, 70366>>,
      <<70384, 70393>>, <<70405, 70412>>, <<70415, 70416>>, <<70419, 70440>>, <<70442, 70448>>,
      <<70450, 70451>>, <<70453, 70457>>, <<70461, 70461>>, <<70480, 70480>>, <<70493, 70497>>,
      <<70656, 70708>>, <<70727, 70730>>, <<70736, 70745>>, <<70751, 70753>>, <<70784, 70831>>,
      <<70852, 70853>>, <<70855, 70855>>, <<70864, 70873>>, <<71040, 71086>>, <<71128, 71131>>,
      <<71168, 71215>>, <<71236, 71236>>, <<71248, 71257>>, <<71296, 71338>>, <<71352, 71352>>,
      <<71360, 71369>>, <<71424, 71450>>, <<71472, 71483>>, <<71488, 71494>>, <<71680, 71723>>,
      <<71840, 71922>>, <<71935, 71942>>, <<71945, 71945>>, <<71948, 71955>>, <<71957, 71958>>,
      <<71960, 71983>>, <<71999, 71999>>, <<72001, 72001>>, <<72016, 72025>>, <<72096, 72103>>,
      <<72106, 72144>>, <<72161, 72161>>, <<72163, 72163>>, <<72192, 72192>>, <<72203, 72242>>,
      <<72250, 72250>>, <<72272, 72272>>, <<72284, 72329>>, <<72349, 72349>>, <<72368, 72440>>,
      <<72704, 72712>>, <<72714, 72750>>, <<72768, 72768>>, <<72784, 72812>>, <<72818, 72847>>,
      <<72960, 72966>>, <<72968, 72969>>, <<72971, 73008>>, <<73030, 73030>>, <<73040, 73049>>,
      <<73056, 73061>>, <<73063, 73064>>, <<73066, 73097>>, <<73112, 73112>>, <<73120, 73129>>,
      <<73440, 73458>>, <<73648, 73648>>, <<73664, 73684>>, <<73728, 74649>>, <<74752, 74862>>,
      <<74880, 75075>>, <<77712, 77808>>, <<77824, 78894>>, <<82944, 83526>>, <<92160, 92728>>,
      <<92736, 92766>>, <<92768, 92777>>, <<92784, 92862>>, <<92864, 92873>>, <<92880, 92909>>,
      <<92928, 92975>>, <<92992, 92995>>, <<93008, 93017>>, <<93019, 93025>>, <<93027, 93047>>,
      <<93053, 93071>>, <<93760, 93846>>, <<93952, 94026>>, <<94032, 94032>>, <<94099, 94111>>,
      <<94176, 94177>>, <<94179, 94179>>, <<94208, 100343>>, <<100352, 101589>>, <<101632, 101640>>,
      <<110576, 110579>>, <<110581, 110587>>, <<110589, 110590>>, <<110592, 110882>>, <<110928, 110930>>,
      <<110948, 110951>>, <<110960, 111355>>, <<113664, 113770>>, <<113776, 113788>>, <<113792, 113800>>,
      <<113808, 113817>>, <<119520, 119539>>, <<119648, 119672>>, <<119808, 119892>>, <<119894, 119964>>,
      <<119966, 119967>>, <<119970, 119970>>, <<119973, 119974>>, <<119977, 119980>>, <<119982, 119993>>,
      <<119995, 119995>>, <<119997, 120003>>, <<120005, 120069>>, <<120071, 120074>>, <<120077, 120084>>,
      <<120086, 120092>>, <<120094, 120121>>, <<120123, 120126>>, <<120128, 120132>>, <<120134, 120134>>,
      <<120138, 120144>>, <<120146, 120485>>, <<120488, 120512>>, <<120514, 120538>>, <<120540, 120570>>,
      <<120572, 120596>>, <<120598, 120628>>, <<120630, 120654>>, <<120656, 120686>>, <<120688, 120712>>,
      <<120714, 120744>>, <<120746, 120770>>, <<120772, 120779>>, <<120782, 120831>>, <<122624, 122654>>,
      <<123136, 123180>>, <<123191, 123197>>, <<123200, 123209>>, <<123214, 123214>>, <<123536, 123565>>,
      <<123584, 123627>>, <<123632, 123641>>, <<124896, 124902>>, <<124904, 124907>>, <<124909, 124910>>,
      <<124912, 124926>>, <<124928, 125124>>, <<125127, 125135>>, <<125184, 125251>>, <<125259, 125259>>,
      <<125264, 125273>>, <<126065, 126123>>, <<126125, 126127>>, <<126129, 126132>>, <<126209, 126253>>,
      <<126255, 126269>>, <<126464, 126467>>, <<126469, 126495>>, <<126497, 126498>>, <<126500, 126500>>,
      <<126503, 126503>>, <<126505, 126514>>, <<126516, 126519>>, <<126521, 126521>>, <<126523, 126523>>,
      <<126530, 126530>>, <<126535, 126535>>, <<126537, 126537>>, <<126539, 126539>>, <<126541, 126543>>,
      <<126545, 126546>>, <<126548, 126548>>, <<126551, 126551>>, <<126553, 126553>>, <<126555, 126555>>,
      <<126557, 126557>>, <<126559, 126559>>, <<126561, 126562>>, <<126564, 126564>>, <<126567, 126570>>,
      <<126572, 126578>>, <<126580, 126583>>, <<126585, 126588>>, <<126590, 126590>>, <<126592, 126601>>,
      <<126603, 126619>>, <<126625, 126627>>, <<126629, 126633>>, <<126635, 126651>>, <<127232, 127244>>,
      <<130032, 130041>>, <<131072, 173791>>, <<173824, 177976>>, <<177984, 178205>>, <<178208, 183969>>,
      <<183984, 191456>>, <<194560, 195101>>, <<196608, 201546>>>>

HighWordChars ==
    {c \in STRING :
        /\ IsEscape(c)
        /\ \E k \in 1..Len(HighWordRanges) :
               /\ HighWordRanges[k][1] <= CodePoint(c)
               /\ CodePoint(c) <= HighWordRanges[k][2]}

\* \w, which decides \b
WordChars == LatinWordChars \cup HighWordChars

(***************************************************************************)
(* The three regular expressions of the module, each by what it matches.   *)
(***************************************************************************)
P_OPERATOR == "\\boperator\\s*$"
P_SHIFT    == "<[<=]"
P_LOOP     == "\\s*(for|while)\\s*\\("
Patterns   == {P_OPERATOR, P_SHIFT, P_LOOP}

\* number of leading whitespace characters of s from 0-based index i on
RECURSIVE SkipSpace(_, _)
SkipSpace(s, i) ==
    IF i < Len(s) /\ At(s, i) \in Whitespace THEN SkipSpace(s, i + 1) ELSE i

RECURSIVE RStrip(_)
RStrip(s) ==
    IF Len(s) > 0 /\ s[Len(s)] \in Whitespace
    THEN RStrip(SubSeq(s, 1, Len(s) - 1)) ELSE s

OperatorWord == <<"o", "p", "e", "r", "a", "t", "o", "r">>

\* re.search(r'\boperator\s*$', s) is not None
SearchOperator(s) ==
    LET t == RStrip(s)
        n == Len(t)
    IN  /\ n >= 8
        /\ SubSeq(t, n - 7, n) = OperatorWord
        /\ (n = 8 \/ t[n - 8] \notin WordChars)

\* re.match(r'<[<=]', s) is not None
MatchShift(s) == Len(s) >= 2 /\ s[1] = "<" /\ s[2] \in {"<", "="}

ForWord   == <<"f", "o", "r">>
WhileWord == <<"w", "h", "i", "l", "e">>

\* re.match(r'\s*(for|while)\s*\(', s): group(1), or "None"
MatchLoop(s) ==
    LET a  == SkipSpace(s, 0)
        kw == IF Slice(s, a, a + 3) = ForWord THEN "for"
              ELSE IF Slice(s, a, a + 5) = WhileWord THEN "while"
              ELSE "None"
        b  == SkipSpace(s, a + (IF kw = "for" THEN 3 ELSE 5))
    IN  IF kw # "None" /\ b < Len(s) /\ At(s, b) = "(" THEN kw ELSE "None"

(***************************************************************************)
(* The compile cache: the lookup inlined in Match and in Search.           *)
(***************************************************************************)
CacheAfter_NoStore(c, p) == c

\* cache after one Match/Search call with pattern p
CacheAfter(c, p) == IF c[p] = 0 THEN [c EXCEPT ![p] = 1] ELSE c

\* compile counts after one Match/Search call with pattern p under cache c
CompilesAfter(n, c, p) == IF c[p] = 0 THEN [n EXCEPT ![p] = @ + 1] ELSE n

(***************************************************************************)
(* FindEndOfExpressionInLine.                                              *)
(***************************************************************************)
\* One return of the scanner: end_pos and stack are the returned pair
\* (none: the stack returned is None), arg is the content of the list the
\* caller passed in when the call returns, searched tells whether Search
\* was called.
Ret(e, n, s, u) == [end_pos |-> e, none |-> n, stack |-> s, arg |-> s, searched |-> u]

Pop(s) == SubSeq(s, 1, Len(s) - 1)
Top(s) == s[Len(s)]

\* `while stack and stack[-1] == '<': stack.pop()`
RECURSIVE PopAngles(_)
PopAngles(s) == IF Len(s) > 0 /\ Top(s) = "<" THEN PopAngles(Pop(s)) ELSE s

\* ClosesTop with the square brackets forgotten
ClosesTop_NoSquare(top, char) ==
    \/ (top = "(" /\ char = ")")
    \/ (top = "{" /\ char = "}")

\* the closer char matches the opener top
ClosesTop(top, char) ==
    \/ (top = "(" /\ char = ")")
    \/ (top = "[" /\ char = "]")
    \/ (top = "{" /\ char = "}")

IsLeftShift_Never(ln, i) == FALSE

\* the '<' at i is the second character of '<<'
IsLeftShift(ln, i) == i > 0 /\ At(ln, i - 1) = "<"

\* the condition under which a '>' at i is skipped; Search is only called
\* when i > 0 and the previous character is not '-'
IgnoredGreater(ln, i) ==
    i > 0 /\ (At(ln, i - 1) = "-" \/ SearchOperator(Slice(ln, 0, i - 1)))

\* what the loop body does with one character: the stack afterwards, whether
\* the function returns there ("closed", "unbalanced") or goes on to the next
\* character ("continue"), and whether Search was called
Go(s, u)      == [stack |-> s, ret |-> "continue", searched |-> u]
Stop(how, s, u) == [stack |-> s, ret |-> how, searched |-> u]

\* lines 68-70
StepOpen(ln, i, s) == Go(Append(s, At(ln, i)), FALSE)

StepLess_AlwaysPush(ln, i, s) ==
    IF IsLeftShift(ln, i)
    THEN IF Len(s) > 0 /\ Top(s) = "<"
         THEN IF Len(s) = 1 THEN Stop("unbalanced", Pop(s), FALSE)
                            ELSE Go(Pop(s), FALSE)
         ELSE Go(s, FALSE)
    ELSE Go(Append(s, "<"), i > 0)

\* lines 71-84
StepLess(ln, i, s) ==
    IF IsLeftShift(ln, i)
    THEN IF Len(s) > 0 /\ Top(s) = "<"
         THEN IF Len(s) = 1 THEN Stop("unbalanced", Pop(s), FALSE)
                            ELSE Go(Pop(s), FALSE)
         ELSE Go(s, FALSE)
    ELSE IF i > 0 /\ SearchOperator(Slice(ln, 0, i))
         THEN Go(s, TRUE)
         ELSE Go(Append(s, "<"), i > 0)

\* lines 85-102
StepClose(ln, i, s) ==
    LET t == PopAngles(s) IN
    IF Len(t) = 0 THEN Stop("unbalanced", t, FALSE)
    ELSE IF ClosesTop(Top(t), At(ln, i))
         THEN IF Len(t) = 1 THEN Stop("closed", Pop(t), FALSE)
                            ELSE Go(Pop(t), FALSE)
         ELSE Stop("unbalanced", t, FALSE)

StepGreater_NoReturn(ln, i, s) ==
    LET u == i > 0 /\ At(ln, i - 1) # "-" IN
    IF IgnoredGreater(ln, i) THEN Go(s, u)
    ELSE IF Len(s) > 0 /\ Top(s) = "<" THEN Go(Pop(s), u) ELSE Go(s, u)

\* lines 103-117
StepGreater(ln, i, s) ==
    LET u == i > 0 /\ At(ln, i - 1) # "-" IN
    IF IgnoredGreater(ln, i) THEN Go(s, u)
    ELSE IF Len(s) > 0 /\ Top(s) = "<"
         THEN IF Len(s) = 1 THEN Stop("closed", Pop(s), u)
                            ELSE Go(Pop(s), u)
         ELSE Go(s, u)

StepSemi_PopOne(ln, i, s) ==
    LET t == IF Len(s) > 0 /\ Top(s) = "<" THEN Pop(s) ELSE s IN
    IF Len(t) = 0 THEN Stop("unbalanced", t, FALSE) ELSE Go(t, FALSE)

\* lines 118-125
StepSemi(ln, i, s) ==
    LET t == PopAngles(s) IN
    IF Len(t) = 0 THEN Stop("unbalanced", t, FALSE) ELSE Go(t, FALSE)

\* lines 66-125: the body of the loop for the character at i
ScanStep(ln, i, s) ==
    LET char == At(ln, i) IN
    CASE char \in {"(", "[", "{"} -> StepOpen(ln, i, s)
      [] char = "<"               -> StepLess(ln, i, s)
      [] char \in {")", "]", "}"} -> StepClose(ln, i, s)
      [] char = ">"               -> StepGreater(ln, i, s)
      [] char = ";"               -> StepSemi(ln, i, s)
      [] OTHER                    -> Go(s, FALSE)

RECURSIVE ScanFrom(_, _, _, _)
ScanFrom(ln, i, s, u) ==
    IF i >= Len(ln) THEN Ret(-1, FALSE, s, u)
    ELSE LET st == ScanStep(ln, i, s)
             u2 == u \/ st.searched
         IN  CASE st.ret = "closed"     -> Ret(i + 1, TRUE, st.stack, u2)
               [] st.ret = "unbalanced" -> Ret(-1, TRUE, st.stack, u2)
               [] OTHER                 -> ScanFrom(ln, i + 1, st.stack, u2)

\* the characters the loop processes from startpos on, one record each
RECURSIVE StepsFrom(_, _, _)
StepsFrom(ln, i, s) ==
    IF i >= Len(ln) THEN <<>>
    ELSE LET st == ScanStep(ln, i, s)
             rec == [i |-> i, char |-> At(ln, i), before |-> s,
                     after |-> st.stack, ret |-> st.ret]
         IN  IF st.ret = "continue"
             THEN <<rec>> \o StepsFrom(ln, i + 1, st.stack)
             ELSE <<rec>>

FindEndOfExpressionInLine(ln, startpos, s) == ScanFrom(ln, startpos, s, FALSE)

(***************************************************************************)
(* ForLoopHelper and WhileLoopHelper.                                      *)
(***************************************************************************)
ops == << <<"+">>, <<"-">>, <<"*">>, <<"/">>, <<"%">>, <<"<", "<">>, <<">", ">">> >>

\* the clause of buf that ForLoopHelper inspects (0-based index into buf)
ForClauseIndex == 1

\* ForLoopHelper looking at the whole text instead of the second clause
ForLoopHelper_AnyClause(text) ==
    \E k \in 1..Len(ops) : Contains(text, ops[k])

ForLoopHelper(text) ==
    LET buf == Split(text, ";")
    IN  /\ Len(buf) >= 2
        /\ \E k \in 1..Len(ops) : Contains(buf[ForClauseIndex + 1], ops[k])

\* WhileLoopHelper without the two shift operators
WhileLoopHelper_NoShift(text) ==
    \E k \in 1..5 : Contains(text, ops[k])

WhileLoopHelper(text) ==
    \E k \in 1..Len(ops) : Contains(text, ops[k])

(***************************************************************************)
(* CloseExpression, one action per line scanned.                           *)
(***************************************************************************)
NumLines == Len(elided)

NoResult == [line |-> <<>>, linenum |-> -1, pos |-> -2]
NoStack  == [none |-> FALSE, items |-> <<>>]

NotFound_LastLine(ln) == [line |-> ln, linenum |-> NumLines - 1, pos |-> -1]

\* the sentinel `(line, clean_lines.NumLines(), -1)`
NotFound(ln) == [line |-> ln, linenum |-> NumLines, pos |-> -1]

\* `(line, linenum, end_pos)`
Found(ln, n, e) == [line |-> ln, linenum |-> n, pos |-> e]

\* `line[pos] in '({[<'`
IsOpener(ch) == ch \in {"(", "{", "[", "<"}

\* NothingToClose without the test for '<<' and '<='
NothingToClose_AnyOpener(ln, p) == ~IsOpener(At(ln, p))

\* line 155: what makes CloseExpression give up before scanning
NothingToClose(ln, p) ==
    (~IsOpener(At(ln, p))) \/ MatchShift(Slice(ln, p, Len(ln)))

\* the position at which the scan of a following line starts (line 167)
ResumePos == 0

\* CarriedStack starting every line afresh
CarriedStack_Fresh(s) == <<>>

\* the stack handed to the scan of a following line (line 167)
CarriedStack(s) == s.items

\* MoreToScan looking at the line count alone
MoreToScan_AnyStack(s, n) == n < NumLines - 1

\* the `while` test of line 164
MoreToScan(s, n) == (~s.none /\ Len(s.items) > 0) /\ n < NumLines - 1

NextLineIndex_Same(n) == n

\* line 165: the line the loop turns to
NextLineIndex(n) == n + 1

\* where the control goes when CloseExpression returns
AfterReturn == IF caller = "clc" THEN "resume" ELSE "done"

Scanned(n, p, s, r) == [linenum |-> n, startpos |-> p, instack |-> s, out |-> r]

\* cache effect of one FindEndOfExpressionInLine call
CacheAfterScan(c, r)    == IF r.searched THEN CacheAfter(c, P_OPERATOR) ELSE c
CompilesAfterScan(n, c, r) == IF r.searched THEN CompilesAfter(n, c, P_OPERATOR) ELSE n

\* lines 154-161: the entry check and the scan of the starting line
CloseExpression_First ==
    /\ pc = "enter"
    /\ LET ln == elided[linenum + 1] IN
       /\ line' = ln
       /\ IF ~IsOpener(At(ln, pos))
          THEN /\ result' = NotFound(ln)
               /\ pc' = AfterReturn
               /\ UNCHANGED <<stack, scanned, cache, compiles>>
          ELSE LET c1 == CacheAfter(cache, P_SHIFT)
                   n1 == CompilesAfter(compiles, cache, P_SHIFT)
               IN  IF NothingToClose(ln, pos)
                   THEN /\ result' = NotFound(ln)
                        /\ pc' = AfterReturn
                        /\ cache' = c1
                        /\ compiles' = n1
                        /\ UNCHANGED <<stack, scanned>>
                   ELSE LET r == FindEndOfExpressionInLine(ln, pos, <<>>) IN
                        /\ scanned' = Append(scanned, Scanned(linenum, pos, <<>>, r))
                        /\ stack' = [none |-> r.none, items |-> r.stack]
                        /\ cache' = CacheAfterScan(c1, r)
                        /\ compiles' = CompilesAfterScan(n1, c1, r)
                        /\ IF r.end_pos > -1
                           THEN /\ result' = Found(ln, linenum, r.end_pos)
                                /\ pc' = AfterReturn
                           ELSE /\ result' = NoResult
                                /\ pc' = "loop"
    /\ UNCHANGED <<elided, caller, startline, linenum, pos, clc_linenum, matched, stmt, errors,
                   steps, called>>

\* lines 164-169: one iteration of the loop over the following lines
CloseExpression_NextLine ==
    /\ pc = "loop"
    /\ MoreToScan(stack, linenum)
    /\ LET n  == NextLineIndex(linenum)
           ln == elided[n + 1]
           s  == CarriedStack(stack)
           r  == FindEndOfExpressionInLine(ln, ResumePos, s)
       IN  /\ linenum' = n
           /\ line' = ln
           /\ scanned' = Append(scanned, Scanned(n, ResumePos, s, r))
           /\ stack' = [none |-> r.none, items |-> r.stack]
           /\ cache' = CacheAfterScan(cache, r)
           /\ compiles' = CompilesAfterScan(compiles, cache, r)
           /\ IF r.end_pos > -1
              THEN /\ result' = Found(ln, n, r.end_pos)
                   /\ pc' = AfterReturn
              ELSE /\ result' = NoResult
                   /\ pc' = "loop"
    /\ UNCHANGED <<elided, caller, startline, pos, clc_linenum, matched, stmt, errors,
                   steps, called>>

\* line 172: the loop is over and nothing closed the expression
CloseExpression_GiveUp ==
    /\ pc = "loop"
    /\ ~MoreToScan(stack, linenum)
    /\ result' = NotFound(line)
    /\ pc' = AfterReturn
    /\ UNCHANGED <<elided, caller, startline, linenum, pos, line, stack, scanned,
                   clc_linenum, matched, stmt, errors, cache, compiles, steps, called>>

\* a call CloseExpression(clean_lines, n, p) by a client of the module
CloseExpression_Call(n, p) ==
    /\ pc \in {"idle", "done"}
    /\ caller' = "direct"
    /\ startline' = n
    /\ linenum' = n
    /\ pos' = p
    /\ line' = <<>>
    /\ stack' = NoStack
    /\ result' = NoResult
    /\ scanned' = <<>>
    /\ clc_linenum' = -1
    /\ matched' = "None"
    /\ stmt' = <<>>
    /\ errors' = <<>>
    /\ pc' = "enter"
    /\ UNCHANGED <<elided, cache, compiles, steps, called>>

(***************************************************************************)
(* CheckLoopCondition.                                                     *)
(***************************************************************************)
FOR_CATEGORY   == "runtime/for_loop_condition"
WHILE_CATEGORY == "runtime/while_loop_condition"
FOR_MESSAGE    == "Possible incorrect condition in range-based for loop"
WHILE_MESSAGE  == "Possible incorrect condition in range-based while loop"

\* the confidence of both diagnostics
Confidence == 5

\* one call error(filename, linenum, category, confidence, message)
Error(n, cat, msg) ==
    [linenum |-> n, category |-> cat, confidence |-> Confidence, message |-> msg]

\* the text handed to the heuristic: `line[start+1:end]`
ConditionText(ln, start, end) == Slice(ln, start + 1, end)

\* ReportedLine reporting the line of the keyword
ReportedLine_Keyword(r) == clc_linenum

\* the line number handed to error(): end_linenum
ReportedLine(r) == r.linenum

\* SpanValid without the test of end
SpanValid_StartOnly(start, end) == start >= 0

\* the guard of line 219
SpanValid(start, end) == start >= 0 /\ end >= 0

\* CategoryOf reporting every loop as a for loop
CategoryOf_AlwaysFor(kw) == FOR_CATEGORY

\* the category reported for a keyword
CategoryOf(kw) == IF kw = "for" THEN FOR_CATEGORY ELSE WHILE_CATEGORY
MessageOf(kw)  == IF kw = "for" THEN FOR_MESSAGE ELSE WHILE_MESSAGE

\* the heuristic applied for a keyword
Flagged(kw, text) ==
    IF kw = "for" THEN ForLoopHelper(text) ELSE WhileLoopHelper(text)

\* lines 208-214: match the keyword and call CloseExpression at the first '('
CheckLoopCondition_Call(n) ==
    /\ pc \in {"idle", "done"}
    /\ LET ln == elided[n + 1]
           kw == MatchLoop(ln)
       IN  /\ matched' = kw
           /\ IF kw = "None"
              THEN /\ pc' = "done"
                   /\ startline' = -1
                   /\ linenum' = -1
                   /\ pos' = -1
              ELSE /\ pc' = "enter"
                   /\ startline' = n
                   /\ linenum' = n
                   /\ pos' = Find(ln, "(")
    /\ cache' = CacheAfter(cache, P_LOOP)
    /\ compiles' = CompilesAfter(compiles, cache, P_LOOP)
    /\ caller' = "clc"
    /\ clc_linenum' = n
    /\ line' = <<>>
    /\ stack' = NoStack
    /\ result' = NoResult
    /\ scanned' = <<>>
    /\ stmt' = <<>>
    /\ errors' = <<>>
    /\ UNCHANGED <<elided, steps, called>>

\* lines 216-229: cut the condition out, apply the heuristic, report
CheckLoopCondition_Resume ==
    /\ pc = "resume"
    /\ LET ln    == elided[clc_linenum + 1]
           start == Find(ln, "(")
           end   == result.pos - 1
           text  == ConditionText(ln, start, end)
       IN  IF SpanValid(start, end) /\ matched \in {"for", "while"}
           THEN /\ stmt' = Append(stmt, text)
                /\ errors' = IF Flagged(matched, text)
                             THEN Append(errors, Error(ReportedLine(result),
                                                       CategoryOf(matched),
                                                       MessageOf(matched)))
                             ELSE errors
           ELSE UNCHANGED <<stmt, errors>>
    /\ pc' = "done"
    /\ UNCHANGED <<elided, caller, startline, linenum, pos, line, stack, result, scanned,
                   clc_linenum, matched, cache, compiles, steps, called>>

(***************************************************************************)
(* The functions of the module called by a client on their own.            *)
(***************************************************************************)
\* a call FindEndOfExpressionInLine(elided[n], p, s), the one call of a run:
\* the list s is the caller's; scanned keeps its content before (instack) and
\* after (out.arg)
FindEndOfExpressionInLine_Call(n, p, s) ==
    /\ pc = "idle"
    /\ LET ln == elided[n + 1]
           r  == FindEndOfExpressionInLine(ln, p, s)
       IN  /\ line' = ln
           /\ scanned' = <<Scanned(n, p, s, r)>>
           /\ steps' = StepsFrom(ln, p, s)
           /\ cache' = CacheAfterScan(cache, r)
           /\ compiles' = CompilesAfterScan(compiles, cache, r)
    /\ caller' = "scan"
    /\ startline' = n
    /\ linenum' = n
    /\ pos' = p
    /\ stack' = NoStack
    /\ result' = NoResult
    /\ clc_linenum' = -1
    /\ matched' = "None"
    /\ stmt' = <<>>
    /\ errors' = <<>>
    /\ pc' = "done"
    /\ UNCHANGED <<elided, called>>

\* lines 36-43: Match(p, s) called by a client; what it leaves behind is the
\* cache, whatever s is
Match_Call(p) ==
    /\ pc \in {"idle", "done"}
    /\ cache' = CacheAfter(cache, p)
    /\ compiles' = CompilesAfter(compiles, cache, p)
    /\ called' = called \cup {<<"Match", p>>}
    /\ UNCHANGED <<elided, pc, caller, startline, linenum, pos, line, stack, result,
                   scanned, clc_linenum, matched, stmt, errors, steps>>

\* lines 46-50: Search(p, s) called by a client
Search_Call(p) ==
    /\ pc \in {"idle", "done"}
    /\ cache' = CacheAfter(cache, p)
    /\ compiles' = CompilesAfter(compiles, cache, p)
    /\ called' = called \cup {<<"Search", p>>}
    /\ UNCHANGED <<elided, pc, caller, startline, linenum, pos, line, stack, result,
                   scanned, clc_linenum, matched, stmt, errors, steps>>

(***************************************************************************)
(* Inputs and specifications.                                              *)
(***************************************************************************)
MaxLen   == 4   \* characters of a single-line file
MaxChars == 3   \* characters, all lines together, of a multi-line file
MaxLines == 3   \* lines of a multi-line file
MaxStmt  == 3   \* characters of a loop condition over the operator characters
MaxTail  == 3   \* characters that follow the word 'operator', or its place
MaxText  == 2   \* characters of a line on which the cache is exercised
Indent   == 8   \* blanks that may start the continuation lines of a loop

Words(A, n) == UNION {[1..k -> A] : k \in 0..n}

\* the files of at most k lines over A holding at most c characters
RECURSIVE FilesOf(_, _, _)
FilesOf(A, k, c) ==
    IF k = 0 THEN {<<>>}
    ELSE {<<>>} \cup
         UNION {{<<w>> \o f : f \in FilesOf(A, k - 1, c - Len(w))} : w \in Words(A, c)}

Delims  == {"(", ")", "[", "]", "{", "}", "<", ">"}
MixedCh == Delims \cup {"a"}
ShiftCh == {"<", "=", ">"}
ParenCh == {"(", ")", "<", ">", ";"}

InitWith(f) ==
    /\ elided = f
    /\ pc = "idle"
    /\ caller = "direct"
    /\ startline = -1
    /\ linenum = -1
    /\ pos = -1
    /\ line = <<>>
    /\ stack = NoStack
    /\ result = NoResult
    /\ scanned = <<>>
    /\ clc_linenum = -1
    /\ matched = "None"
    /\ stmt = <<>>
    /\ errors = <<>>
    /\ cache = [p \in Patterns |-> 0]
    /\ compiles = [p \in Patterns |-> 0]
    /\ steps = <<>>
    /\ called = {}

\* files handed to CloseExpression: every short single line, every file of
\* a few very short lines, every very short line of '<', '=' and '>'
InitClose ==
    \/ \E k \in 0..MaxLen : \E w \in [1..k -> MixedCh] : InitWith(<<w>>)
    \/ \E f \in FilesOf(ParenCh, MaxLines, MaxChars) \ {<<>>} : InitWith(f)
    \/ \E k \in 0..MaxChars : \E w \in [1..k -> ShiftCh] : InitWith(<<w>>)

NextClose ==
    \/ \E n \in 0..(NumLines - 1) : \E p \in 0..(Len(elided[n + 1]) - 1) :
           CloseExpression_Call(n, p)
    \/ CloseExpression_First
    \/ CloseExpression_NextLine
    \/ CloseExpression_GiveUp

SpecClose == InitClose /\ [][NextClose]_vars

Blanks(n) == [i \in 1..n |-> " "]

LoopCh == {"(", ")", ";", "+", "<", ">", "a"}
ContCh == {")", ";", "+"}
Heads  == {<<" ", "f", "o", "r", " ", "(">>, <<"w", "h", "i", "l", "e", "(">>}
BareHeads == {<<"f", "o", "r", "(">>, <<"w", "h", "i", "l", "e", " ", "(">>}
StmtCh == {";", "+", "-", "*", "/", "%", "<", ">", "a"}

\* lines that are no loop: another keyword, a longer word, no parenthesis
Others == {<<"i", "f", "(", "+", ")">>, <<"f", "o", "r", "a", "(", "+", ")">>,
           <<"w", "h", "i", "l", "e">>, <<"(", "f", "o", "r", "(", ")">>, <<>>}

\* f with h put before its first line and ind before each later line
Laid(h, ind, f) ==
    [i \in 1..Len(f) |-> IF i = 1 THEN h \o f[1] ELSE ind \o f[i]]

\* files handed to CheckLoopCondition: a keyword and '(' followed by every
\* short text, alone or continued on indented lines; a closed condition over
\* the operator characters; lines that are no loop
InitLoop ==
    \/ \E h \in Heads : \E k \in 0..MaxLen : \E w \in [1..k -> LoopCh] :
           InitWith(<<h \o w>>)
    \/ \E h \in BareHeads : \E k \in 0..MaxStmt : \E w \in [1..k -> StmtCh] :
           InitWith(<<h \o w \o <<")">> >>)
    \/ \E w \in Others : InitWith(<<w>>)
    \/ \E h \in BareHeads : \E ind \in {<<>>, Blanks(Indent)} :
           \E g \in FilesOf(ContCh, MaxLines, MaxChars) \ {<<>>} :
               InitWith(Laid(h, ind, g))

NextLoop ==
    \/ \E n \in 0..(NumLines - 1) : CheckLoopCondition_Call(n)
    \/ CloseExpression_First
    \/ CloseExpression_NextLine
    \/ CloseExpression_GiveUp
    \/ CheckLoopCondition_Resume

SpecLoop == InitLoop /\ [][NextLoop]_vars


\* lines handed to FindEndOfExpressionInLine by a client: nothing, an opener
\* or a letter (of ASCII, of Latin-1, Greek alpha), then the word 'operator'
\* or nothing, then every short text; the blanks are ' ', U+00A0 and U+1680
HeadCh == {<<>>, <<"<">>, <<"(">>, <<"a">>, <<"é">>, <<"\\u03b1">>}
TailCh == {"<", ">", ")", ";", " ", " ", "\\u1680", "-", "a"}

\* the lists a client passes as the stack
InStacks == {<<>>, <<"<">>, <<"(">>, <<"(", "<">>, <<"<", "<">>, <<"(", "<", "<">>}

InitScan ==
    \E a \in HeadCh : \E w \in {<<>>, OperatorWord} :
        \E k \in 0..MaxTail : \E b \in [1..k -> TailCh] : InitWith(<<a \o w \o b>>)

\* where a client starts: at 0, as CloseExpression does on a later line, or
\* at an opener, as it does on its first line
StartsOf(ln) == {0} \cup {i \in 1..(Len(ln) - 1) : IsOpener(At(ln, i))}

NextScan ==
    \E p \in StartsOf(elided[1]) : \E s \in InStacks :
        FindEndOfExpressionInLine_Call(0, p, s)

SpecScan == InitScan /\ [][NextScan]_vars

\* files on which the cache is exercised: a loop keyword or none, then a very
\* short text of angle brackets, alone or followed by one more line
CacheCh == {"<", ">"}
CacheEnds == {<<>>, << <<>> >>, << <<">">> >>}

InitCache ==
    \E h \in BareHeads \cup {<<>>} : \E k \in 0..MaxText : \E w \in [1..k -> CacheCh] :
        \E e \in CacheEnds : InitWith(<<h \o w>> \o e)

NextCache ==
    \/ \E p \in Patterns : Match_Call(p)
    \/ \E p \in Patterns : Search_Call(p)
    \/ \E n \in 0..(NumLines - 1) : CheckLoopCondition_Call(n)
    \/ \E n \in 0..(NumLines - 1) : \E p \in 0..(Len(elided[n + 1]) - 1) :
           CloseExpression_Call(n, p)
    \/ CloseExpression_First
    \/ CloseExpression_NextLine
    \/ CloseExpression_GiveUp
    \/ CheckLoopCondition_Resume

SpecCache == InitCache /\ [][NextCache]_vars

(***************************************************************************)
(* Delimiter matching stated without the scanner: the reference against    *)
(* which the claims about CloseExpression are checked.                     *)
(***************************************************************************)
OpenCh  == {"(", "[", "{", "<"}
CloseCh == {")", "]", "}", ">"}

PairOf(o) ==
    CASE o = "(" -> ")" [] o = "[" -> "]" [] o = "{" -> "}" [] o = "<" -> ">"

\* s from the 1-based index i on closes, in order, the closers awaited
RECURSIVE Nests(_, _, _)
Nests(s, i, awaited) ==
    IF i > Len(s) THEN awaited = <<>>
    ELSE IF s[i] \in OpenCh THEN Nests(s, i + 1, Append(awaited, PairOf(s[i])))
    ELSE IF s[i] \in CloseCh
         THEN /\ awaited # <<>>
              /\ awaited[Len(awaited)] = s[i]
              /\ Nests(s, i + 1, SubSeq(awaited, 1, Len(awaited) - 1))
    ELSE Nests(s, i + 1, awaited)

WellBalanced(s) == Nests(s, 1, <<>>)

\* no '<<' or '<=', no '->', no 'operator', no ';'
Unambiguous(s) ==
    /\ \A i \in 1..Len(s) :
          /\ s[i] # ";"
          /\ (s[i] = "<" /\ i < Len(s)) => s[i + 1] \notin {"<", "="}
          /\ (s[i] = ">" /\ i > 1) => s[i - 1] # "-"
    /\ ~Contains(s, OperatorWord)

\* openers minus closers among the 0-based positions p..q of s
Depth(s, p, q) ==
    Cardinality({i \in p..q : At(s, i) \in OpenCh})
    - Cardinality({i \in p..q : At(s, i) \in CloseCh})

\* the 0-based position of the closer that brings the depth opened at p to 0
MatchOf(s, p) ==
    CHOOSE q \in (p + 1)..(Len(s) - 1) :
        Depth(s, p, q) = 0 /\ \A r \in (p + 1)..(q - 1) : Depth(s, p, r) # 0

StartLine == elided[startline + 1]

Returned == pc = "done" /\ caller = "direct"

\* C1: on a well-balanced line of (), [], {} and <> pairs with no ambiguous
\* operator use, CloseExpression called at an opener returns that line, its
\* index and the position one past the delimiter matching the opener.
C1_BalancedLineCloses ==
    (Returned /\ WellBalanced(StartLine) /\ Unambiguous(StartLine)
              /\ At(StartLine, pos) \in OpenCh)
    => result = [line |-> StartLine, linenum |-> startline,
                 pos |-> MatchOf(StartLine, pos) + 1]

\* C1 happens: a nested line such as "[<>]" closed from its first opener
C1_Witness ==
    /\ Returned /\ WellBalanced(StartLine) /\ Unambiguous(StartLine)
    /\ Len(StartLine) = 4 /\ pos = 0
    /\ At(StartLine, 0) = "[" /\ At(StartLine, 1) = "<"
    /\ result.linenum = startline /\ result.pos = 4

\* '(' minus ')' among the 0-based positions a..b of s
ParenDepth(s, a, b) ==
    Cardinality({i \in a..b : At(s, i) = "("})
    - Cardinality({i \in a..b : At(s, i) = ")"})

\* '(' minus ')' on the whole lines m..n of the file
RECURSIVE LinesDepth(_, _)
LinesDepth(m, n) ==
    IF m > n THEN 0
    ELSE ParenDepth(elided[m + 1], 0, Len(elided[m + 1]) - 1) + LinesDepth(m + 1, n)

\* '(' minus ')' from line n, position p to line m, position q, both included
SpanDepth(n, p, m, q) ==
    IF m = n THEN ParenDepth(elided[n + 1], p, q)
    ELSE ParenDepth(elided[n + 1], p, Len(elided[n + 1]) - 1)
         + LinesDepth(n + 1, m - 1) + ParenDepth(elided[m + 1], 0, q)

\* (m, q) is the ')' that matches the '(' at (n, p)
MatchesParen(n, p, m, q) ==
    /\ SpanDepth(n, p, m, q) = 0
    /\ \A k \in n..m : \A r \in 0..(Len(elided[k + 1]) - 1) :
          ((k > n \/ r >= p) /\ (k < m \/ r < q)) => SpanDepth(n, p, k, r) > 0

\* the file holds nothing but parentheses, '<' and names
PlainFile ==
    \A k \in 1..Len(elided) : \A i \in 1..Len(elided[k]) :
        elided[k][i] \in {"(", ")", "<", "a"}

\* C2: when the '(' opened on line N is matched by a ')' on a later line,
\* every following line is scanned from position 0 with the stack the line
\* before it left, and CloseExpression returns the closer's line, its index
\* and the position one past the closer.
C2_ClosesOnLaterLine ==
    /\ \A j \in 2..Len(scanned) :
          /\ scanned[j].startpos = 0
          /\ scanned[j].linenum = scanned[j - 1].linenum + 1
          /\ scanned[j].instack = scanned[j - 1].out.stack
          /\ scanned[j - 1].out.end_pos = -1
          /\ ~scanned[j - 1].out.none
    /\ (Returned /\ PlainFile /\ At(StartLine, pos) = "(")
       => \A m \in (startline + 1)..(NumLines - 1) :
             \A q \in 0..(Len(elided[m + 1]) - 1) :
                MatchesParen(startline, pos, m, q)
                => result = [line |-> elided[m + 1], linenum |-> m, pos |-> q + 1]

\* C2 happens: the '(' of line 0 is closed on line 2, line 1 leaving two
\* openers on the stack
C2_Witness ==
    /\ Returned /\ PlainFile /\ NumLines = 3 /\ startline = 0
    /\ At(StartLine, pos) = "("
    /\ Len(scanned) = 3
    /\ Len(scanned[2].out.stack) >= 2
    /\ result.linenum = 2 /\ result.pos >= 1

\* the character at the start position opens nothing: it is no opener, or
\* it is the '<' of '<<' or of '<='
OpensNothing ==
    \/ At(StartLine, pos) \notin OpenCh
    \/ /\ At(StartLine, pos) = "<"
       /\ pos + 1 < Len(StartLine)
       /\ At(StartLine, pos + 1) \in {"<", "="}

\* C7: called where nothing opens, CloseExpression returns the start line
\* with the sentinel (NumLines(), -1) at once, having scanned no line.
C7_NothingToCloseIsSentinel ==
    (caller = "direct" /\ pc \notin {"idle", "enter"} /\ OpensNothing)
    => /\ pc = "done"
       /\ scanned = <<>>
       /\ result = [line |-> StartLine, linenum |-> NumLines, pos |-> -1]

\* C7 happens: a call at the '<' of '<='
C7_Witness ==
    /\ Returned
    /\ At(StartLine, pos) = "<"
    /\ pos + 1 < Len(StartLine) /\ At(StartLine, pos + 1) = "="
    /\ scanned = <<>>
    /\ result.pos = -1

\* the scanner's result r is (-1, None)
Unbalanced(r) == r.none /\ r.end_pos = -1

\* C8: once a scan reports Unbalanced, on the starting line or on a later
\* one, no further line is scanned and CloseExpression returns the sentinel
\* (NumLines(), -1).
C8_UnbalancedIsSentinel ==
    /\ \A j \in 1..(Len(scanned) - 1) : ~Unbalanced(scanned[j].out)
    /\ (caller = "direct" /\ Len(scanned) >= 1
                          /\ Unbalanced(scanned[Len(scanned)].out))
       => /\ pc \in {"loop", "done"}
          /\ linenum = scanned[Len(scanned)].linenum
          /\ pc = "done" => result = [line |-> elided[linenum + 1],
                                      linenum |-> NumLines, pos |-> -1]

\* C8 happens: the second line scanned is unbalanced and lines follow it
C8_Witness ==
    /\ Returned
    /\ Len(scanned) = 2
    /\ Unbalanced(scanned[2].out)
    /\ scanned[2].linenum < NumLines - 1
    /\ result.pos = -1

(***************************************************************************)
(* Claims about CheckLoopCondition, checked under SpecLoop.                *)
(***************************************************************************)
KeywordLine == elided[clc_linenum + 1]

\* CheckLoopCondition has returned after matching a keyword
Checked == pc = "done" /\ caller = "clc" /\ matched # "None"

\* the lines m..n of the file, one after the other
RECURSIVE JoinLines(_, _)
JoinLines(m, n) ==
    IF m > n THEN <<>> ELSE elided[m + 1] \o JoinLines(m + 1, n)

\* the text strictly between the '(' at (n, p) and the ')' at (m, q)
SpanText(n, p, m, q) ==
    IF m = n THEN SubSeq(elided[n + 1], p + 2, q)
    ELSE SubSeq(elided[n + 1], p + 2, Len(elided[n + 1]))
         \o JoinLines(n + 1, m - 1)
         \o SubSeq(elided[m + 1], 1, q)

\* C3: when the condition closes, on the keyword's line or later, the text
\* handed to the heuristic is the text strictly between the opening '(' and
\* the ')' that CloseExpression located.
C3_TextIsSpan ==
    (Checked /\ result.pos >= 1)
    => stmt = <<SpanText(clc_linenum, Find(KeywordLine, "("),
                         result.linenum, result.pos - 1)>>

\* C4: an invocation calls error() at most once, with confidence 5, and
\* with the for category exactly for a 'for' and the while category exactly
\* for a 'while'.
C4_AtMostOneDiagnostic ==
    /\ Len(errors) <= 1
    /\ \A i \in 1..Len(errors) :
          /\ errors[i].confidence = 5
          /\ errors[i].category \in
                 {"runtime/for_loop_condition", "runtime/while_loop_condition"}
          /\ errors[i].category = "runtime/for_loop_condition" <=> matched = "for"
          /\ errors[i].category = "runtime/while_loop_condition" <=> matched = "while"

\* C4 happens: a while loop is reported
C4_Witness ==
    /\ Checked /\ matched = "while"
    /\ Len(errors) = 1
    /\ errors[1].category = "runtime/while_loop_condition"

\* C5: a diagnostic carries the index of the line on which the closing ')'
\* of the condition was found: the keyword's line when the condition closes
\* on it, a later line otherwise.
C5_ReportedAtClosingLine ==
    \A i \in 1..Len(errors) :
        /\ Len(scanned) >= 1
        /\ LET last == scanned[Len(scanned)]
               n    == errors[i].linenum
           IN  /\ n = last.linenum
               /\ last.out.end_pos >= 1
               /\ At(elided[n + 1], last.out.end_pos - 1) = ")"
               /\ Len(scanned) = 1 => n = clc_linenum
               /\ Len(scanned) > 1 => n > clc_linenum

\* C5 happens: a condition closed on a later line is reported there
C5_Witness ==
    /\ Checked /\ Len(errors) = 1
    /\ errors[1].linenum > clc_linenum
    /\ Len(scanned) >= 2

\* C6: when the keyword matches and CloseExpression returns the sentinel,
\* nothing is reported and no heuristic is applied; the position handed to
\* CloseExpression is that of a '(' of the line, so no index is out of range.
C6_NotFoundIsSilent ==
    /\ (Checked /\ result.pos = -1) => (errors = <<>> /\ stmt = <<>>)
    /\ (caller = "clc" /\ pc = "enter")
       => /\ startline \in 0..(NumLines - 1)
          /\ pos \in 0..(Len(elided[startline + 1]) - 1)
          /\ At(elided[startline + 1], pos) = "("

\* C6 happens: the condition is still open at the end of the file
C6_Witness ==
    /\ Checked /\ matched = "for"
    /\ result.linenum = NumLines /\ result.pos = -1
    /\ Len(scanned) >= 2
    /\ ~Unbalanced(scanned[Len(scanned)].out)

\* t[k] starts one of + - * / % << >>
OpAt(t, k) ==
    \/ t[k] \in {"+", "-", "*", "/", "%"}
    \/ k < Len(t) /\ t[k] \in {"<", ">"} /\ t[k + 1] = t[k]

\* an operator lies after the first ';' of t and before its second one
SecondClauseHasOp(t) ==
    \E j \in 1..Len(t) :
        /\ t[j] = ";"
        /\ \A i \in 1..(j - 1) : t[i] # ";"
        /\ \E k \in (j + 1)..Len(t) :
              /\ OpAt(t, k)
              /\ \A i \in (j + 1)..k : t[i] # ";"

\* C9: ForLoopHelper flags a text exactly when an operator lies in its second
\* clause; a 'for (...)' closed on its own line is reported once, as a for
\* loop, exactly when that holds of the text between the parentheses.
C9_ForFlagsSecondClause ==
    /\ (Checked /\ matched = "for" /\ stmt # <<>>)
       => (errors # <<>> <=> SecondClauseHasOp(stmt[1]))
    /\ (Checked /\ matched = "for" /\ result.pos >= 1 /\ result.linenum = clc_linenum)
       => LET text == SubSeq(KeywordLine, Find(KeywordLine, "(") + 2, result.pos - 1)
          IN  IF SecondClauseHasOp(text)
              THEN /\ Len(errors) = 1
                   /\ errors[1].category = "runtime/for_loop_condition"
                   /\ errors[1].linenum = clc_linenum
              ELSE errors = <<>>

\* C9 happens: an operator in the first clause only, not reported
C9_WitnessUnflagged ==
    /\ Checked /\ matched = "for" /\ result.linenum = clc_linenum
    /\ stmt = << <<"+", ";", ";">> >>
    /\ errors = <<>>

\* C9 happens: an operator in the second clause, reported
C9_Witness ==
    /\ Checked /\ matched = "for" /\ result.linenum = clc_linenum
    /\ stmt # <<>> /\ SecondClauseHasOp(stmt[1])
    /\ Len(errors) = 1

\* an operator lies somewhere in t
HasOp(t) == \E k \in 1..Len(t) : OpAt(t, k)

\* C10: WhileLoopHelper flags a text exactly when it holds one of
\* + - * / % << >> anywhere.
C10_WhileFlagsAnyOp ==
    (Checked /\ matched = "while" /\ stmt # <<>>)
    => (errors # <<>> <=> HasOp(stmt[1]))

\* C10 happens: a while condition holding '<<' is reported
C10_Witness ==
    /\ Checked /\ matched = "while"
    /\ stmt # <<>> /\ Contains(stmt[1], <<"<", "<">>)
    /\ Len(errors) = 1

(***************************************************************************)
(* FindEndOfExpressionInLine called by a client.                           *)
(***************************************************************************)
ScanReturned == pc = "done" /\ caller = "scan"

\* the one call recorded by FindEndOfExpressionInLine_Call
TheScan == scanned[1]

\* C11: after FindEndOfExpressionInLine(line, startpos, stack) returns, the
\* list the caller passed as the stack holds what it held before the call.
C11_StackUntouched ==
    ScanReturned => TheScan.out.arg = TheScan.instack

\* the character at i comes right after the word 'operator', or after
\* whitespace that follows it, and the word does not continue a longer word
AfterOperator(ln, i) ==
    \E j \in 0..(i - 8) :
        /\ SubSeq(ln, j + 1, j + 8) = OperatorWord
        /\ \A k \in (j + 8)..(i - 1) : At(ln, k) \in Whitespace
        /\ (j = 0 \/ At(ln, j - 1) \notin WordChars)

\* C13: a '>' that comes right after the token 'operator' (whitespace may
\* stand between) is ignored: the stack is as before and the scan goes on.
C13_OperatorGreaterIgnored ==
    ScanReturned =>
        \A k \in 1..Len(steps) :
            steps[k].char = ">" /\ AfterOperator(line, steps[k].i)
                => steps[k].after = steps[k].before /\ steps[k].ret = "continue"

\* the three kinds of result of the scanner
Closed(r)   == r.end_pos > -1 /\ r.none
Continue(r) == r.end_pos = -1 /\ ~r.none

\* r is of one kind and one only; a position returned lies after startpos
\* and within the line
OneKind(r, ln, p) ==
    /\ r.end_pos \in {-1} \cup ((p + 1)..Len(ln))
    /\ (Closed(r) /\ ~Unbalanced(r) /\ ~Continue(r))
         \/ (~Closed(r) /\ Unbalanced(r) /\ ~Continue(r))
         \/ (~Closed(r) /\ ~Unbalanced(r) /\ Continue(r))

\* C14 as stated: every result is Closed, Unbalanced or Continue, and the
\* stack of a Continue is never empty.
C14_ContinueNeverEmpty ==
    ScanReturned =>
        /\ OneKind(TheScan.out, line, pos)
        /\ (Continue(TheScan.out) => TheScan.out.stack # <<>>)

\* C14: every result is Closed, Unbalanced or Continue; the stack of a
\* Continue is empty only if the incoming stack was empty and no character
\* processed pushed anything.
C14_ContinueEmptyOnlyIfNothingOpen ==
    ScanReturned =>
        /\ OneKind(TheScan.out, line, pos)
        /\ (Continue(TheScan.out) /\ TheScan.out.stack = <<>>
              => /\ TheScan.instack = <<>>
                 /\ \A k \in 1..Len(steps) : steps[k].after = <<>>)

\* a Continue with a stack left after pops, and a Continue with none
C14_Witness ==
    /\ ScanReturned /\ Continue(TheScan.out)
    /\ TheScan.out.stack # <<>>
    /\ Len(TheScan.out.stack) < Len(TheScan.instack)

C14_WitnessEmpty ==
    /\ ScanReturned /\ Continue(TheScan.out)
    /\ TheScan.out.stack = <<>> /\ Len(steps) > 0

\* s without the '<' entries at its top
WithoutTopAngles(s) ==
    LET keep == {j \in 1..Len(s) : s[j] # "<"}
        n    == IF keep = {} THEN 0 ELSE CHOOSE j \in keep : \A m \in keep : m <= j
    IN  SubSeq(s, 1, n)

OnlyAngles(s) == \A j \in 1..Len(s) : s[j] = "<"

\* C15: at a ';' every '<' at the top of the stack is popped and nothing
\* else, so the top is no '<' afterwards; if the stack is empty then, the scan
\* ends there as Unbalanced; a stack of '<' only before the ';' means the
\* scan does not report Closed.
C15_SemicolonDropsAngles ==
    ScanReturned =>
        \A k \in 1..Len(steps) :
            steps[k].char = ";" =>
                LET b == steps[k].before
                    a == steps[k].after
                IN  /\ a = WithoutTopAngles(b)
                    /\ (a # <<>> => a[Len(a)] # "<" /\ steps[k].ret = "continue")
                    /\ (a = <<>> => /\ steps[k].ret = "unbalanced"
                                    /\ k = Len(steps)
                                    /\ Unbalanced(TheScan.out))
                    /\ (OnlyAngles(b) => ~Closed(TheScan.out))

\* a ';' met with two '<' on the stack and nothing else
C15_Witness ==
    /\ ScanReturned
    /\ \E k \in 1..Len(steps) :
           /\ steps[k].char = ";"
           /\ steps[k].before = <<"<", "<">>
           /\ steps[k].after = <<>>
    /\ Unbalanced(TheScan.out)

\* a ';' met with two '<' above a '(': the scan goes on with the '('
C15_WitnessKept ==
    /\ ScanReturned
    /\ \E k \in 1..(Len(steps) - 1) :
           /\ steps[k].char = ";"
           /\ steps[k].before = <<"(", "<", "<">>
           /\ steps[k].after = <<"(">>

\* the delimiter characters of ln are two, a '<' and the '<' after it
OnlyOneShift(ln) ==
    \E i \in 0..(Len(ln) - 2) :
        /\ At(ln, i) = "<" /\ At(ln, i + 1) = "<"
        /\ \A j \in 0..(Len(ln) - 1) : j \notin {i, i + 1} => At(ln, j) \notin Delims

\* C16: scanned from 0 with an empty stack, a line whose only delimiters are
\* one '<<' is not reported Closed and leaves no stack to carry forward.
C16_ShiftOpensNothing ==
    ScanReturned /\ pos = 0 /\ TheScan.instack = <<>> /\ OnlyOneShift(line)
        => /\ ~Closed(TheScan.out)
           /\ (Continue(TheScan.out) => TheScan.out.stack = <<>>)

\* 'a<<a' scanned from 0 with an empty stack, both '<' processed
C16_Witness ==
    /\ ScanReturned /\ pos = 0 /\ TheScan.instack = <<>>
    /\ line = <<"a", "<", "<", "a">>
    /\ Len(steps) = 3 /\ steps[2].after = <<"<">> /\ steps[3].after = <<>>

\* C17: a '<' that comes right after the token 'operator' (whitespace may
\* stand between) and does not follow another '<' leaves the stack as it
\* is, and the scan goes on.
C17_OperatorLessNotPushed ==
    ScanReturned =>
        \A k \in 1..Len(steps) :
            /\ steps[k].char = "<"
            /\ AfterOperator(line, steps[k].i)
            /\ At(line, steps[k].i - 1) # "<"
            => steps[k].after = steps[k].before /\ steps[k].ret = "continue"

\* the '<' of 'operator <' processed with a '<' on the stack, which stays
C17_Witness ==
    /\ ScanReturned
    /\ \E k \in 1..Len(steps) :
           /\ steps[k].char = "<"
           /\ AfterOperator(line, steps[k].i)
           /\ At(line, steps[k].i - 1) = " "
           /\ steps[k].before = <<"<">>
           /\ steps[k].after = <<"<">>

(***************************************************************************)
(* CloseExpression: progress and the shape of the result.                  *)
(***************************************************************************)
InClose == caller = "direct" /\ pc \in {"enter", "loop", "done"}

Sentinel(r) == r.linenum = NumLines /\ r.pos = -1

\* the lines scanned so far are the start line and those after it, in
\* order, none beyond the last; what the next step reads exists; a return
\* after a scan that did not close is the sentinel
ScansForward ==
    InClose =>
        /\ \A j \in 1..Len(scanned) :
               /\ scanned[j].linenum = startline + (j - 1)
               /\ scanned[j].linenum < NumLines
        /\ (pc = "enter" => /\ linenum \in 0..(NumLines - 1)
                            /\ pos \in 0..(Len(elided[linenum + 1]) - 1))
        /\ (pc = "loop" => /\ scanned[Len(scanned)].linenum = linenum
                           /\ \/ ENABLED CloseExpression_GiveUp
                              \/ /\ MoreToScan(stack, linenum)
                                 /\ NextLineIndex(linenum) \in 0..(NumLines - 1))
        /\ (pc = "done" /\ scanned # <<>> /\ ~Closed(scanned[Len(scanned)].out)
              => Sentinel(result))

\* a step of a running call returns or scans one more line, the next one
OneMoreLine ==
    caller = "direct" /\ pc \in {"enter", "loop"} =>
        /\ pc' \in {"loop", "done"}
        /\ (pc' = "loop" => /\ Len(scanned') = Len(scanned) + 1
                            /\ linenum' = IF pc = "enter" THEN startline ELSE linenum + 1)

\* C18: CloseExpression scans the start line, then the next, and so on,
\* each once and none beyond the last; every step returns or scans one more
\* line, so it returns after at most NumLines - linenum scans; when no scan
\* closed the expression it returns the sentinel.
C18_ScansForwardAndEnds == [] ScansForward /\ [][OneMoreLine]_vars

\* a call from line 0 of a three-line file that scanned all three lines and
\* found no closer
C18_Witness ==
    /\ Returned /\ startline = 0 /\ NumLines = 3
    /\ Len(scanned) = 3
    /\ scanned[3].linenum = 2
    /\ Continue(scanned[3].out)
    /\ Sentinel(result)

\* C19: when CloseExpression returns a position, the character before it
\* is the closer of the kind of the opener at the starting position.
C19_ClosesStartingOpener ==
    Returned /\ result.pos >= 1
        => At(result.line, result.pos - 1) = PairOf(At(StartLine, pos))

\* r is the end of a span: a position after a character of a line of the
\* file, at or after the start
SpanEnd(r) ==
    /\ r.linenum \in startline..(NumLines - 1)
    /\ r.line = elided[r.linenum + 1]
    /\ r.pos \in 1..Len(r.line)
    /\ (r.linenum = startline => r.pos > pos)

\* C20: what CloseExpression returns is the end of a span or the sentinel
\* (NumLines, -1), never a line of the file with -1 nor NumLines with a
\* position.
C20_SpanEndOrSentinel ==
    Returned =>
        /\ SpanEnd(result) \/ Sentinel(result)
        /\ (result.pos = -1) = (result.linenum = NumLines)

\* a span that ends on a line after the start line
C20_Witness ==
    Returned /\ SpanEnd(result) /\ result.linenum > startline /\ Len(scanned) > 1

\* the sentinel returned after a scan
C20_WitnessSentinel ==
    Returned /\ Sentinel(result) /\ scanned # <<>> /\ NumLines > 1

(***************************************************************************)
(* The compile cache.                                                      *)
(***************************************************************************)
\* the patterns a client has handed to Match, to Search
UsedBy(fn) == {p \in Patterns : <<fn, p>> \in called}

CompiledAtMostOnce ==
    \A p \in Patterns : /\ compiles[p] <= 1
                        /\ (cache[p] # 0) = (compiles[p] = 1)
                        /\ (p \in UsedBy("Match") \cup UsedBy("Search") => cache[p] # 0)

EntriesKept ==
    \A p \in Patterns : cache[p] # 0 => cache'[p] = cache[p] /\ compiles'[p] = compiles[p]

\* C12: after any sequence of Match and Search calls each pattern has been
\* compiled at most once and is in the cache if it was used, whichever of
\* the two functions used it; a cached entry is never removed or replaced.
C12_CompiledOnce == [] CompiledAtMostOnce /\ [][EntriesKept]_vars

\* both functions were called by a client with one pattern, compiled once
C12_Witness ==
    \E p \in UsedBy("Match") \cap UsedBy("Search") : compiles[p] = 1 /\ cache[p] # 0

====
